---- MODULE Spec2Model ----
(***************************************************************************)
(* Ontario RRIF strategy tester.                                           *)
(*                                                                         *)
(*  Spec         the four-step wizard (App.tsx, StrategyStep, GoalStep,    *)
(*               InputFormStep), its compare requests and the responses    *)
(*               of the comparison endpoint;                               *)
(*  SpecResults  the goal-based selection of ResultsPage.tsx, applied to   *)
(*               result lists drawn from a bounded set;                    *)
(*  SpecEngine   the projection engine behind /compare (the FastAPI        *)
(*               backend, documented by docs/logic.md and the README       *)
(*               files; its Python sources are not part of src/).          *)
(*                                                                         *)
(* An optional number (a FormData field that may be undefined) is a set:   *)
(* {} is undefined, {v} is the number v.                                   *)
(***************************************************************************)
EXTENDS Integers, Sequences, FiniteSets, TLC

VARIABLES
    formData,      \* App: useState<FormData>
    currentStep,   \* App: useState(1)
    resultsData,   \* App: useState<ComparisonResponseItem[] | null>; {} is null
    scenarioData,  \* App: useState<ScenarioInput | null>; {} is null
    error,         \* App: useState<string | null>; "" is null
    inflight,      \* compare requests sent and not yet answered
    submits,       \* number of compare requests sent so far (request ids)
    ops,           \* toggles, field edits and submissions made so far
    shown,         \* the answered exchange resultsData came from; {} if none
    entered,       \* the form fields the user has typed a value into
    rpGoal,        \* ResultsPage prop goal
    rpResults,     \* ResultsPage prop results
    rpPhase,       \* "props" before the memo hooks ran, "rendered" after
    processed,     \* ResultsPage: processedResults
    recommended,   \* ResultsPage: index of the recommended result, 0 if null
    scenario,      \* engine: the ScenarioInput of the request
    seed,          \* engine: the seed of the request
    runs,          \* engine: one record per strategy run
    cb,            \* claw-back calculation: its inputs and its result
    report,        \* ReportPage: prop explanation and the nodes it rendered
    sform,         \* ScenarioForm: its four state hooks and the last payload
    oasModal,      \* OASCalculatorModal: its state hooks and its request
    proxy          \* server/index.js: the /api requests received so far

wizardVars == <<formData, currentStep, resultsData, scenarioData, error,
                inflight, submits, ops, shown, entered>>
pageVars == <<rpGoal, rpResults, rpPhase, processed, recommended>>
engineVars == <<scenario, seed, runs>>
sideVars == <<report, sform, oasModal, proxy>>
vars == <<wizardVars, pageVars, engineVars, cb, sideVars>>

\* The components a specification does not exercise are not mounted.
ReportIdle == report = {}
FormIdle == sform = {}
OasIdle == oasModal = {}
ProxyIdle == proxy = <<>>
SideIdle == ReportIdle /\ FormIdle /\ OasIdle /\ ProxyIdle

(***************************************************************************)
(* Bounds of the model.                                                    *)
(***************************************************************************)
MaxOps == 4        \* strategy toggles, field edits and submissions per behaviour
MaxResults == 3    \* length of a result list handed to ResultsPage
MaxHorizon == 3    \* longest engine horizon explored

Undefined == {}
Opt(S) == {Undefined} \cup {{v} : v \in S}
IsDefined(x) == x # Undefined
\* JavaScript truthiness of an optional number: undefined and 0 are falsy.
Truthy(x) == x # Undefined /\ x # {0}
ValueOf(x) == CHOOSE v \in x : TRUE

SeqRange(s) == {s[i] : i \in 1..Len(s)}
Includes(s, c) == c \in SeqRange(s)
\* Array.prototype.filter(x => x !== c)
RECURSIVE Without(_, _)
Without(s, c) ==
    IF s = <<>> THEN <<>>
    ELSE IF Head(s) = c THEN Without(Tail(s), c)
    ELSE <<Head(s)>> \o Without(Tail(s), c)

(***************************************************************************)
(* The wizard: App.tsx                                                     *)
(***************************************************************************)
\* StrategyStep.tsx: the codes offered in step 2, in display order.
strategyOptions == <<"BF", "E65", "CD", "GM", "SEQ", "IO", "LS", "EBX">>

\* GoalStep: the four toggle-button values.
GoalOptions == {"Minimize Tax", "Maximize Spending", "Preserve Estate", "Simplify"}

\* strategies.ts: ALL_STRATEGIES, code -> label.
StrategyLabel(code) ==
    CASE code = "BF" -> "Bracket-Filling"
      [] code = "GM" -> "Gradual Meltdown"
      [] code = "E65" -> "Early RRIF @65"
      [] code = "CD" -> "CPP/OAS Delay"
      [] code = "SEQ" -> "Spousal Equalisation"
      [] code = "IO" -> "Interest-Offset Loan"
      [] code = "LS" -> "Lump-Sum Withdrawal"
      [] code = "EBX" -> "Empty-by-X"
      [] code = "MIN" -> "RRIF Minimum Only"

\* App.tsx: the initial FormData. Percentages are in tenths of a percent.
InitialFormData ==
    [age |-> 65, rrspBalance |-> 500000, tfsaBalance |-> 100000,
     cppAmount |-> 12000, oasAmount |-> 8000, desiredSpending |-> 60000,
     expectedReturn |-> 50, stdDevReturn |-> 80, horizon |-> 30,
     married |-> FALSE,
     spouseAge |-> Undefined, spouseRrspBalance |-> Undefined,
     spouseTfsaBalance |-> Undefined, spouseCppAmount |-> Undefined,
     spouseOasAmount |-> Undefined,
     bracketFillCeiling |-> Undefined, cppStartAge |-> Undefined,
     lumpSumAmount |-> Undefined, lumpSumYear |-> Undefined,
     emptyByAge |-> Undefined,
     goal |-> "", strategies |-> <<>>]

BasicFields == {"age", "rrspBalance", "tfsaBalance", "cppAmount", "oasAmount",
                "desiredSpending", "expectedReturn", "stdDevReturn", "horizon"}
SpouseFields == {"spouseAge", "spouseRrspBalance", "spouseTfsaBalance",
                 "spouseCppAmount", "spouseOasAmount"}
AdvancedFields == {"bracketFillCeiling", "cppStartAge", "lumpSumAmount",
                   "lumpSumYear", "emptyByAge"}

\* The part of the wizard's choices the model explores: the strategy
\* buttons clicked, the goals chosen and the fields typed into.
ModelCodes == {"GM", "LS", "SEQ", "BF"}
ModelGoals == {"Minimize Tax", "Simplify"}
ModelEditFields == {"age", "horizon", "lumpSumAmount", "lumpSumYear",
                    "spouseAge", "bracketFillCeiling"}

\* The numbers a user types into a field in this model. 0 is what
\* Number("") gives when the field is cleared.
TypedValues(f) ==
    CASE f = "age" -> {49}
      [] f = "rrspBalance" -> {0, 50000}
      [] f = "tfsaBalance" -> {0}
      [] f = "cppAmount" -> {17500}
      [] f = "oasAmount" -> {0}
      [] f = "desiredSpending" -> {10000}
      [] f = "expectedReturn" -> {0}
      [] f = "stdDevReturn" -> {0}
      [] f = "horizon" -> {0, 5}
      [] f = "spouseAge" -> {63}
      [] f = "spouseRrspBalance" -> {200000}
      [] f = "spouseTfsaBalance" -> {0}
      [] f = "spouseCppAmount" -> {18001}
      [] f = "spouseOasAmount" -> {8000}
      [] f = "bracketFillCeiling" -> {90997}
      [] f = "cppStartAge" -> {0, 65}
      [] f = "lumpSumAmount" -> {0, 50000}
      [] f = "lumpSumYear" -> {5, 30}
      [] f = "emptyByAge" -> {0, 85}

\* InputFormStep.tsx: fieldLimits, [min, max] of each field.
Limit(f) ==
    CASE f \in {"age", "spouseAge"} -> <<50, 100>>
      [] f \in {"rrspBalance", "spouseRrspBalance"} -> <<100, 50000000>>
      [] f \in {"tfsaBalance", "spouseTfsaBalance"} -> <<0, 200000>>
      [] f \in {"cppAmount", "spouseCppAmount"} -> <<0, 18000>>
      [] f \in {"oasAmount", "spouseOasAmount"} -> <<0, 10000>>
      [] f = "desiredSpending" -> <<20000, 300000>>
      [] f = "expectedReturn" -> <<5, 120>>
      [] f = "stdDevReturn" -> <<5, 250>>
      [] f = "horizon" -> <<5, 40>>
      [] f = "bracketFillCeiling" -> <<30000, 250000>>
      [] f = "cppStartAge" -> <<60, 70>>
      [] f = "lumpSumAmount" -> <<1000, 500000>>

OutOfLimit(f, v) == v < Limit(f)[1] \/ v > Limit(f)[2]

\* InputFormStep.tsx: the government maxima checked besides fieldLimits.
CPP_MAX == 17060
OAS_MAX == 8500

\* InputFormStep.tsx: isLumpSumYearError for a defined year.
LumpSumYearError(year, horizon) == year < 1 \/ year > horizon

\* InputFormStep.tsx lines 73-144: the fields whose error flag is raised.
FormErrors(d) ==
    {f \in BasicFields : OutOfLimit(f, d[f])}
    \cup {f \in {"cppAmount"} : d.cppAmount > CPP_MAX}
    \cup {f \in {"oasAmount"} : d.oasAmount > OAS_MAX}
    \cup {f \in {"spouseCppAmount"} :
            IsDefined(d[f]) /\ ValueOf(d[f]) > CPP_MAX}
    \cup {f \in {"spouseOasAmount"} :
            IsDefined(d[f]) /\ ValueOf(d[f]) > OAS_MAX}
    \cup {f \in SpouseFields : IsDefined(d[f]) /\ OutOfLimit(f, ValueOf(d[f]))}
    \cup {f \in AdvancedFields \ {"lumpSumYear", "emptyByAge"} :
            IsDefined(d[f]) /\ OutOfLimit(f, ValueOf(d[f]))}
    \cup {f \in {"lumpSumYear"} :
            IsDefined(d[f]) /\ LumpSumYearError(ValueOf(d[f]), d.horizon)}
    \cup {f \in {"emptyByAge"} :
            IsDefined(d[f])
            /\ (ValueOf(d[f]) < d.age + 5 \/ ValueOf(d[f]) > 100)}

\* InputFormStep.tsx: the fields rendered for the current data.
VisibleFields(d) ==
    BasicFields
    \cup (IF d.married THEN SpouseFields ELSE {})
    \cup (IF Includes(d.strategies, "BF") THEN {"bracketFillCeiling"} ELSE {})
    \cup (IF Includes(d.strategies, "CD") THEN {"cppStartAge"} ELSE {})
    \cup (IF Includes(d.strategies, "LS")
          THEN {"lumpSumAmount", "lumpSumYear"} ELSE {})
    \cup (IF Includes(d.strategies, "EBX") THEN {"emptyByAge"} ELSE {})

\* updateFormData: setFormData(prev => ({...prev, ...u}))
updateFormData(d, u) ==
    [f \in DOMAIN d |-> IF f \in DOMAIN u THEN u[f] ELSE d[f]]

\* handleRunSimulation, step 1: pretty goal -> enum code.
goalEnum(goal) ==
    CASE goal = "Minimize Tax" -> "minimize_tax"
      [] goal = "Maximize Spending" -> "maximize_spending"
      [] goal = "Preserve Estate" -> "preserve_estate"
      [] OTHER -> "simplify"

\* handleRunSimulation: the form field behind each override key.
ParamField(k) ==
    CASE k = "bracket_fill_ceiling" -> "bracketFillCeiling"
      [] k = "cpp_start_age" -> "cppStartAge"
      [] k = "lump_sum_amount" -> "lumpSumAmount"
      [] k = "lump_sum_year_offset" -> "lumpSumYear"
      [] k = "target_depletion_age" -> "emptyByAge"

ParamKeys == {"bracket_fill_ceiling", "cpp_start_age", "lump_sum_amount",
              "lump_sum_year_offset", "target_depletion_age"}

\* handleRunSimulation: strategyParamsOverride holds the defined values only.
strategyParamsOverride(d) ==
    [k \in {q \in ParamKeys : IsDefined(d[ParamField(q)])} |->
        ValueOf(d[ParamField(k)])]

\* handleRunSimulation, step 2: the ScenarioInput payload.
scenarioPayload(d) ==
    [age |-> d.age, rrsp_balance |-> d.rrspBalance,
     tfsa_balance |-> d.tfsaBalance, cpp_at_65 |-> d.cppAmount,
     oas_at_65 |-> d.oasAmount, desired_spending |-> d.desiredSpending,
     expect_return_pct |-> d.expectedReturn,
     stddev_return_pct |-> d.stdDevReturn,
     life_expectancy_years |-> d.horizon,
     province |-> "ON",
     goal |-> goalEnum(d.goal),
     spouse |-> IF d.married
                THEN {[age |-> d.spouseAge,
                       rrsp_balance |-> d.spouseRrspBalance,
                       tfsa_balance |-> d.spouseTfsaBalance,
                       cpp_at_65 |-> d.spouseCppAmount,
                       oas_at_65 |-> d.spouseOasAmount]}
                ELSE Undefined,
     params |-> IF DOMAIN strategyParamsOverride(d) # {}
                THEN {strategyParamsOverride(d)}
                ELSE Undefined]

\* handleRunSimulation, step 3: which strategies to run.
strategyList(d) == IF Len(d.strategies) > 0 THEN d.strategies ELSE <<"GM">>

\* handleRunSimulation, step 4: the request posted to /compare (with the
\* form data and the user-entered fields it was built from).
CompareRequest(d, id) ==
    [request_id |-> id,
     scenario |-> scenarioPayload(d),
     strategies |-> strategyList(d),
     form |-> d,
     entered |-> entered]

\* The comparison endpoint: one item per requested code whose run
\* succeeded, in request order (the orchestrator of the backend).
RECURSIVE Compare(_, _)
Compare(codes, failed) ==
    IF codes = <<>> THEN <<>>
    ELSE (IF Head(codes) \in failed THEN <<>>
          ELSE <<[strategy_code |-> Head(codes),
                  strategy_name |-> StrategyLabel(Head(codes))]>>)
         \o Compare(Tail(codes), failed)

\* The failure annotations the endpoint returns beside the comparisons.
Failures(codes, failed) ==
    {[strategy_code |-> c, reason |-> "strategy run failed"] :
        c \in failed \cap SeqRange(codes)}

\* The outcomes of a comparison the model explores: no run fails, or the
\* run of one requested code does.
FailureSets(codes) == {f \in SUBSET SeqRange(codes) : Cardinality(f) <= 1}

\* The endpoint starts one run per entry of the requested list: the number
\* of runs of each code.
RunsPerCode(codes) ==
    [c \in SeqRange(codes) |-> Cardinality({i \in 1..Len(codes) : codes[i] = c})]

\* A table that lists the results last to first.
TableRowsReversed(results) ==
    [i \in 1..Len(results) |-> results[Len(results) + 1 - i].strategy_code]

\* ResultsPage.tsx lines 99-123: one table row per result, in order.
TableRows(results) == [i \in 1..Len(results) |-> results[i].strategy_code]

\* The view App renders: which step component is on screen, "" if none.
StepView ==
    CASE currentStep = 1 -> "GoalStep"
      [] currentStep = 2 -> "StrategyStep"
      [] currentStep = 3 -> "InputFormStep"
      [] currentStep = 4 /\ resultsData # {}
            /\ Len(ValueOf(resultsData)) > 0 -> "ResultsPage"
      [] OTHER -> ""

WizardInit ==
    /\ formData = InitialFormData
    /\ currentStep = 1
    /\ resultsData = {}
    /\ scenarioData = {}
    /\ error = ""
    /\ inflight = {}
    /\ submits = 0
    /\ ops = 0
    /\ shown = {}
    /\ entered = {}

\* GoalStep: a goal toggle (or Next with a goal chosen): onSelectGoal.
onSelectGoal(goal) ==
    /\ StepView = "GoalStep"
    /\ formData' = updateFormData(formData, [goal |-> goal])
    /\ currentStep' = currentStep + 1
    /\ UNCHANGED <<resultsData, scenarioData, error, inflight, submits, ops,
                   shown>>
    /\ UNCHANGED entered

\* ToggleButtonGroup (exclusive = false): the clicked code leaves the
\* selection if it is in it and is appended otherwise.
Toggled(sel, code) ==
    IF Includes(sel, code) THEN Without(sel, code) ELSE Append(sel, code)

\* App.tsx (wizard with defaults): the updates onToggleStrategy applies.
ToggleUpdates(d, codes) ==
    [f \in {"strategies"}
        \cup (IF Includes(codes, "LS") /\ ~Truthy(d.lumpSumAmount)
              THEN {"lumpSumAmount", "lumpSumYear"} ELSE {})
        \cup (IF Includes(codes, "BF") /\ ~Truthy(d.bracketFillCeiling)
              THEN {"bracketFillCeiling"} ELSE {})
        \cup (IF Includes(codes, "CD") /\ ~Truthy(d.cppStartAge)
              THEN {"cppStartAge"} ELSE {})
        \cup (IF Includes(codes, "EBX") /\ ~Truthy(d.emptyByAge)
              THEN {"emptyByAge"} ELSE {})
     |-> CASE f = "strategies" -> codes
           [] f = "lumpSumAmount" -> {90000}
           [] f = "lumpSumYear" -> {20}
           [] f = "bracketFillCeiling" -> {90000}
           [] f = "cppStartAge" -> {70}
           [] f = "emptyByAge" -> {90}]

onToggleStrategy(code) ==
    /\ StepView = "StrategyStep"
    /\ ops < MaxOps
    /\ ops' = ops + 1
    /\ formData' = updateFormData(formData,
                       ToggleUpdates(formData, Toggled(formData.strategies, code)))
    /\ UNCHANGED <<currentStep, resultsData, scenarioData, error, inflight,
                   submits, shown>>
    /\ UNCHANGED entered

\* StrategyStep: Next (disabled while nothing is selected).
onNext ==
    /\ StepView = "StrategyStep"
    /\ Len(formData.strategies) # 0
    /\ formData' = IF Includes(formData.strategies, "SEQ")
                   THEN updateFormData(formData, [married |-> TRUE])
                   ELSE formData
    /\ currentStep' = currentStep + 1
    /\ UNCHANGED <<resultsData, scenarioData, error, inflight, submits, ops,
                   shown>>
    /\ UNCHANGED entered

\* StrategyStep and InputFormStep: Back.
goBack ==
    /\ StepView \in {"StrategyStep", "InputFormStep"}
    /\ currentStep' = currentStep - 1
    /\ UNCHANGED <<formData, resultsData, scenarioData, error, inflight,
                   submits, ops, shown>>
    /\ UNCHANGED entered

\* InputFormStep: handleInputChange(field) on a rendered number field.
handleInputChange(f, v) ==
    /\ StepView = "InputFormStep"
    /\ ops < MaxOps
    /\ f \in VisibleFields(formData)
    /\ formData' = updateFormData(formData,
                       [g \in {f} |-> IF f \in BasicFields THEN v ELSE {v}])
    /\ ops' = ops + 1
    /\ UNCHANGED <<currentStep, resultsData, scenarioData, error, inflight,
                   submits, shown>>
    /\ entered' = entered \cup {f}

\* InputFormStep: the "Married (include spouse)" checkbox.
handleMarriedChange ==
    /\ StepView = "InputFormStep"
    /\ ops < MaxOps
    /\ formData' = updateFormData(formData, [married |-> ~formData.married])
    /\ ops' = ops + 1
    /\ UNCHANGED <<currentStep, resultsData, scenarioData, error, inflight,
                   submits, shown>>
    /\ UNCHANGED entered

\* InputFormStep: "Run Simulation" (onClick = onSubmit, never disabled):
\* handleRunSimulation up to the awaited fetch.
handleRunSimulation ==
    /\ StepView = "InputFormStep"
    /\ ops < MaxOps
    /\ ops' = ops + 1
    /\ error' = ""
    /\ scenarioData' = {scenarioPayload(formData)}
    /\ inflight' = inflight \cup {CompareRequest(formData, submits + 1)}
    /\ submits' = submits + 1
    /\ UNCHANGED <<formData, currentStep, resultsData, shown>>
    /\ UNCHANGED entered

\* handleRunSimulation after the fetch resolved with res.ok: the endpoint
\* answered req, the runs of the codes in failed having failed.
ResponseOk(req, failed) ==
    /\ req \in inflight
    /\ inflight' = inflight \ {req}
    /\ resultsData' = {Compare(req.strategies, failed)}
    /\ currentStep' = 4
    /\ shown' = {[request |-> req,
                  comparisons |-> Compare(req.strategies, failed),
                  failures |-> Failures(req.strategies, failed),
                  runs |-> RunsPerCode(req.strategies)]}
    /\ UNCHANGED <<formData, scenarioData, error, submits, ops>>
    /\ UNCHANGED entered

\* handleRunSimulation, catch branch: the fetch failed or answered with a
\* status that is not ok (the proxy's 500 of server/index.js, for one).
ResponseError(req) ==
    /\ req \in inflight
    /\ inflight' = inflight \ {req}
    /\ error' = "HTTP 500: Backend service unavailable"
    /\ resultsData' = {}
    /\ shown' = {}
    /\ UNCHANGED <<formData, currentStep, scenarioData, submits, ops>>
    /\ UNCHANGED entered

\* ResultsPage: Back.
onBack ==
    /\ StepView = "ResultsPage"
    /\ resultsData' = {}
    /\ currentStep' = 2
    /\ shown' = {}
    /\ UNCHANGED <<formData, scenarioData, error, inflight, submits, ops>>
    /\ UNCHANGED entered

\* ResultsPage: Start Over.
onStartOver ==
    /\ StepView = "ResultsPage"
    /\ formData' = updateFormData(formData,
                       [goal |-> "", strategies |-> <<>>, married |-> FALSE])
    /\ resultsData' = {}
    /\ currentStep' = 1
    /\ shown' = {}
    /\ UNCHANGED <<scenarioData, error, inflight, submits, ops>>
    /\ UNCHANGED entered

WizardNext ==
    \/ \E g \in GoalOptions \cap ModelGoals : onSelectGoal(g)
    \/ \E c \in SeqRange(strategyOptions) \cap ModelCodes : onToggleStrategy(c)
    \/ onNext
    \/ goBack
    \/ \E f \in (BasicFields \cup SpouseFields \cup AdvancedFields)
                    \cap ModelEditFields :
          \E v \in TypedValues(f) : handleInputChange(f, v)
    \/ handleMarriedChange
    \/ handleRunSimulation
    \/ \E req \in inflight :
          \E failed \in FailureSets(req.strategies) : ResponseOk(req, failed)
    \/ \E req \in inflight : ResponseError(req)
    \/ onBack
    \/ onStartOver

(***************************************************************************)
(* ResultsPage.tsx: normalisation of the metrics and the recommendation    *)
(***************************************************************************)
\* a ?? b
Coalesce(a, b) == IF a # Undefined THEN a ELSE b

\* res.summary?.field
SummaryField(res, field) ==
    IF res.summary = Undefined THEN Undefined ELSE ValueOf(res.summary)[field]

\* ResultsPage.tsx lines 14-28: processedResults; {} is null.
processedResults(results) ==
    [i \in 1..Len(results) |->
        [strategy_code |-> results[i].strategy_code,
         strategy_name |-> results[i].strategy_name,
         totalTaxes |->
            Coalesce(results[i].total_taxes,
                     SummaryField(results[i], "lifetime_tax_paid_nominal")),
         totalSpending |->
            Coalesce(results[i].total_spending,
                     SummaryField(results[i], "average_annual_real_spending")),
         finalEstate |->
            Coalesce(results[i].final_estate,
              Coalesce(SummaryField(results[i],
                           "net_value_to_heirs_after_final_taxes_pv"),
                       SummaryField(results[i],
                           "final_total_portfolio_value_nominal")))]]

\* The legacy page (the ResultsPage of pages/Calculator.tsx) compares the raw
\* metrics with no null test: a comparison with a missing value is false.
ReplacesNoNullTest(goal, res, best) ==
    CASE goal = "Minimize Tax" ->
            res.totalTaxes # {} /\ best.totalTaxes # {}
            /\ ValueOf(res.totalTaxes) < ValueOf(best.totalTaxes)
      [] goal = "Maximize Spending" ->
            res.totalSpending # {} /\ best.totalSpending # {}
            /\ ValueOf(res.totalSpending) > ValueOf(best.totalSpending)
      [] goal = "Preserve Estate" ->
            res.finalEstate # {} /\ best.finalEstate # {}
            /\ ValueOf(res.finalEstate) > ValueOf(best.finalEstate)
      [] goal = "Simplify" -> res.strategy_name = "RRIF Minimums Only"
      [] OTHER -> FALSE

\* ResultsPage.tsx lines 34-70: the test under which res replaces
\* bestStrategy inside the forEach of the given goal.
Replaces(goal, res, best) ==
    CASE goal = "Minimize Tax" ->
            res.totalTaxes # {}
            /\ (best.totalTaxes = {}
                \/ ValueOf(res.totalTaxes) < ValueOf(best.totalTaxes))
      [] goal = "Maximize Spending" ->
            res.totalSpending # {}
            /\ (best.totalSpending = {}
                \/ ValueOf(res.totalSpending) > ValueOf(best.totalSpending))
      [] goal = "Preserve Estate" ->
            res.finalEstate # {}
            /\ (best.finalEstate = {}
                \/ ValueOf(res.finalEstate) > ValueOf(best.finalEstate))
      [] goal = "Simplify" -> res.strategy_name = "RRIF Minimums Only"
      [] OTHER -> FALSE

\* The forEach loop from index i on, best being the index of bestStrategy.
RECURSIVE ForEachBest(_, _, _, _)
ForEachBest(goal, rs, i, best) ==
    IF i > Len(rs) THEN best
    ELSE ForEachBest(goal, rs, i + 1,
                     IF Replaces(goal, rs[i], rs[best]) THEN i ELSE best)

\* ResultsPage.tsx lines 31-72: recommended, as an index into
\* processedResults; 0 is null.
recommendedIndex(goal, rs) ==
    IF Len(rs) = 0 THEN 0 ELSE ForEachBest(goal, rs, 1, 1)

\* Result lists handed to the page in this model.
ResultCodes == <<"GM", "LS", "MIN", "BF">>
DirectChoices == {<<{}, {}, {}>>, <<{1}, {2}, {1}>>, <<{2}, {1}, {2}>>,
                  <<{2}, {}, {}>>}
SummaryChoices ==
    {Undefined,
     {[lifetime_tax_paid_nominal |-> {1}, average_annual_real_spending |-> {1},
       net_value_to_heirs_after_final_taxes_pv |-> {},
       final_total_portfolio_value_nominal |-> {2}]},
     {[lifetime_tax_paid_nominal |-> {3}, average_annual_real_spending |-> {3},
       net_value_to_heirs_after_final_taxes_pv |-> {3},
       final_total_portfolio_value_nominal |-> {1}]}}

ResultItem(code, d, sm) ==
    [strategy_code |-> code, strategy_name |-> StrategyLabel(code),
     total_taxes |-> d[1], total_spending |-> d[2], final_estate |-> d[3],
     summary |-> sm]

ResultList(n, k, ds, sms) ==
    [i \in 1..n |->
        ResultItem(ResultCodes[((i + k) % Len(ResultCodes)) + 1], ds[i], sms[i])]

PageInit ==
    /\ rpGoal \in GoalOptions
    /\ \E n \in 1..MaxResults, k \in {0, 1} :
          \E ds \in [1..n -> DirectChoices], sms \in [1..n -> SummaryChoices] :
              rpResults = ResultList(n, k, ds, sms)
    /\ rpPhase = "props"
    /\ processed = <<>>
    /\ recommended = 0

\* The first render: both useMemo hooks run.
Render ==
    /\ rpPhase = "props"
    /\ processed' = processedResults(rpResults)
    /\ recommended' = recommendedIndex(rpGoal, processedResults(rpResults))
    /\ rpPhase' = "rendered"
    /\ UNCHANGED <<rpGoal, rpResults>>

PageIdle ==
    /\ rpGoal = ""
    /\ rpResults = <<>>
    /\ rpPhase = "idle"
    /\ processed = <<>>
    /\ recommended = 0

(***************************************************************************)
(* The projection engine behind /compare.  Amounts are whole dollars       *)
(* unless a name says cents; percentages are whole percents.               *)
(***************************************************************************)
Max(a, b) == IF a >= b THEN a ELSE b
Min(a, b) == IF a <= b THEN a ELSE b

\* README "2025 Tax Assumptions": the OAS clawback threshold of the engine;
\* docs/logic.md: the recovery rate.
ClawbackThreshold == 93454
ClawbackRatePct == 15

\* The claw-back with no cap at the benefit amount.
ClawbackUncapped(benefitCents, threshold, income) ==
    IF income > threshold
    THEN ClawbackRatePct * (income - threshold)
    ELSE 0

\* docs/logic.md "OAS Clawback": 15% of the net income above the threshold,
\* up to the annual benefit.  Income and threshold in dollars, benefit and
\* result in cents (15% of a whole dollar is a whole number of cents).
Clawback(benefitCents, threshold, income) ==
    IF income > threshold
    THEN Min(ClawbackRatePct * (income - threshold), benefitCents)
    ELSE 0

\* FreeRrifGuide.tsx "2025 RRIF Minimum Withdrawal Rates", in basis points;
\* no mandatory minimum before the conversion age, the table's last rate
\* from 95 on.
FactorBp(age) ==
    CASE age < 71 -> 0
      [] age = 71 -> 528
      [] age = 72 -> 540
      [] age = 73 -> 553
      [] age = 74 -> 567
      [] age = 75 -> 582
      [] age = 76 -> 598
      [] age = 77 -> 617
      [] age = 78 -> 636
      [] age = 81 -> 748
      [] age = 82 -> 785
      [] age = 83 -> 824
      [] age = 84 -> 865
      [] age = 85 -> 899
      [] age = 90 -> 1192
      [] age >= 95 -> 2000

\* The mandatory minimum withdrawal for an age and a balance:
\* floor(balance * factor), computed on the quotient and the remainder of
\* the balance by 10000 to stay within 32 bits.
MinWithdrawal(age, balance) ==
    (balance \div 10000) * FactorBp(age)
    + ((balance % 10000) * FactorBp(age)) \div 10000

\* A request passed on with no upper limit.
ClampFloorOnly(request, minimum, balance) == Max(request, minimum)

\* Simulation loop, step 3: the request clamped to
\* [mandatory minimum, available balance].
ClampWithdrawal(request, minimum, balance) ==
    Min(Max(request, minimum), balance)

AllCodes == {"MIN", "GM", "BF", "E65", "CD", "SEQ", "IO", "LS", "EBX"}

\* SimulationForm.tsx schema: the parameters each strategy toggle makes
\* required (under the names of types/api.ts).
RequiredParams(code) ==
    CASE code = "BF" -> {"bracket_fill_ceiling"}
      [] code = "LS" -> {"lump_sum_amount", "lump_sum_year_offset"}
      [] code = "EBX" -> {"target_depletion_age"}
      [] code = "CD" -> {"cpp_start_age", "oas_start_age"}
      [] code = "IO" -> {"loan_interest_rate_pct", "loan_amount_as_pct_of_rrif"}
      [] OTHER -> {}

\* README "Strategy-Specific Inputs": the parameters with a documented
\* default (the claw-back threshold, start ages of 70, 5 % and 20 %).
DefaultedParams ==
    {"bracket_fill_ceiling", "cpp_start_age", "oas_start_age",
     "loan_interest_rate_pct", "loan_amount_as_pct_of_rrif"}

Supplied(sc) == DOMAIN sc.params

\* A check that accepts every request.
MissingParamsUnchecked(code, sc) == {}

\* The required parameters of a strategy that the request neither supplies
\* nor has a default for.
MissingParams(code, sc) ==
    (RequiredParams(code) \ DefaultedParams) \ Supplied(sc)

Param(sc, k, default) == IF k \in DOMAIN sc.params THEN sc.params[k] ELSE default

\* Benefit schedule: the yearly amount of a benefit of amountAt65 started
\* at startAge (0.6% less per month before 65, 0.7% more per month after),
\* nothing before the start age.
BenefitAt(amountAt65, startAge, age) ==
    IF age < startAge THEN 0
    ELSE IF startAge < 65
         THEN (amountAt65 * (1000 - 72 * (65 - startAge))) \div 1000
         ELSE (amountAt65 * (1000 + 84 * (startAge - 65))) \div 1000

CppStart(code, sc) == IF code = "CD" THEN Param(sc, "cpp_start_age", 70) ELSE 65
OasStart(code, sc) == IF code = "CD" THEN Param(sc, "oas_start_age", 70) ELSE 65

\* Pseudo-random generator of the growth draws: a linear congruential step.
RngModulus == 16
RngNext(x) == (5 * x + 3) % RngModulus

\* A generator seeded from the request id as well.
InitialRngFromRequestId(run) == (seed + run.request_id) % RngModulus

\* The generator state of a run at year 0, derived from the seed alone.
InitialRng(run) == seed % RngModulus

\* The shocked return with no floor.
ReturnPctUntruncated(sc, rng) ==
    IF sc.stddev_return_pct = 0 THEN sc.expect_return_pct
    ELSE sc.expect_return_pct + sc.stddev_return_pct * ((RngNext(rng) % 5) - 2)

\* Simulation loop, step 7: the return of the year in percent: the expected
\* return, plus a seeded shock of -2..2 standard deviations when volatility
\* is modelled, never below -100%.
ReturnPct(sc, rng) ==
    IF sc.stddev_return_pct = 0 THEN sc.expect_return_pct
    ELSE Max(-100, sc.expect_return_pct
                     + sc.stddev_return_pct * ((RngNext(rng) % 5) - 2))

Grow(balance, pct) == (balance * (100 + pct)) \div 100

\* Tax calculator, base tax: the lowest federal rate (the bracket tables
\* are YAML data of the backend).
BaseTax(income) == (15 * Max(income, 0)) \div 100

\* The scenarios and requests the engine is run on.
EngineAges == {64, 71, 95}
EngineSeeds == {1, 10}
FullParams(age) ==
    [k \in {"bracket_fill_ceiling", "lump_sum_amount", "lump_sum_year_offset",
            "target_depletion_age", "cpp_start_age", "oas_start_age",
            "loan_interest_rate_pct", "loan_amount_as_pct_of_rrif"} |->
        CASE k = "bracket_fill_ceiling" -> 60000
          [] k = "lump_sum_amount" -> 90000
          [] k = "lump_sum_year_offset" -> 1
          [] k = "target_depletion_age" -> age + 2
          [] k = "cpp_start_age" -> 66
          [] k = "oas_start_age" -> 67
          [] k = "loan_interest_rate_pct" -> 4
          [] k = "loan_amount_as_pct_of_rrif" -> 10]
Restrict(f, keys) == [k \in keys |-> f[k]]
ParamChoices(age) ==
    { FullParams(age),
      Restrict(FullParams(age), {"lump_sum_amount", "loan_interest_rate_pct"}) }
SpouseChoices(age) == { {}, {[age |-> age, rrsp_balance |-> 40000]} }
ScenarioInputs ==
    { [age |-> a, rrsp_balance |-> b, tfsa_balance |-> t,
       cpp_at_65 |-> 12000, oas_at_65 |-> 8000, desired_spending |-> 60000,
       expect_return_pct |-> 5, stddev_return_pct |-> sd,
       life_expectancy_years |-> h, spouse |-> sp, params |-> ps] :
        a \in EngineAges, b \in {40000, 100000}, t \in {0, 50000},
        sd \in {0, 55}, h \in 1..MaxHorizon,
        sp \in SpouseChoices(71), ps \in ParamChoices(71) }

\* The age advanced once more before the first year is simulated.
AgeInYearAdvancedFirst(startAge, y) == startAge + y + 1

\* Simulation loop, step 1: the age simulated in the year of index y; the
\* first year is simulated at the starting age (the age-71 scenario of the
\* testable properties) and the age advances by one from year to year.
AgeInYear(startAge, y) == startAge + y

\* HouseholdState at year 0, created from the scenario.
InitialState(sc, run) ==
    [rrif |-> sc.rrsp_balance,
     tfsa |-> sc.tfsa_balance,
     loan |-> IF run.strategy = "IO"
              THEN (sc.rrsp_balance
                    * Param(sc, "loan_amount_as_pct_of_rrif", 20)) \div 100
              ELSE 0,
     spouse_rrif |-> IF sc.spouse # {} THEN ValueOf(sc.spouse).rrsp_balance ELSE 0,
     rng |-> InitialRng(run),
     cum_clawback |-> 0,
     cum_tax |-> 0]

\* Strategy policies: the withdrawal a strategy requests for the year,
\* before the minimum and the balance are enforced.
GMRequest(sc, other) == Max(0, sc.desired_spending - other)

RequestedWithdrawal(sc, code, st, y, age, other, interest) ==
    CASE code = "MIN" -> MinWithdrawal(age, st.rrif)
      [] code = "GM" -> GMRequest(sc, other)
      [] code = "BF" ->
           Max(0, Param(sc, "bracket_fill_ceiling", ClawbackThreshold) - other)
      [] code = "E65" -> IF age >= 65 THEN GMRequest(sc, other) ELSE 0
      [] code = "CD" -> GMRequest(sc, other)
      [] code = "SEQ" -> GMRequest(sc, other) - GMRequest(sc, other) \div 2
      [] code = "IO" -> GMRequest(sc, other) + interest
      [] code = "LS" ->
           GMRequest(sc, other)
           + (IF y = Param(sc, "lump_sum_year_offset", 0)
              THEN Param(sc, "lump_sum_amount", 0) ELSE 0)
      [] code = "EBX" ->
           IF Param(sc, "target_depletion_age", 0) <= age + 1 THEN st.rrif
           ELSE st.rrif \div (Param(sc, "target_depletion_age", 0) - age)

\* The spouse's share: half of the combined amount under SEQ, the spouse's
\* own minimum otherwise.
SpouseRequest(sc, code, other) ==
    IF code = "SEQ" THEN GMRequest(sc, other) \div 2 ELSE 0

Exhausted(st) ==
    st.rrif = 0 /\ st.tfsa = 0 /\ st.loan = 0 /\ st.spouse_rrif = 0

\* Results put at the front of the sequence.
PrependResult(results, r) == <<r>> \o results

\* Simulation loop, step 8.
AppendResult(results, r) == Append(results, r)

\* Simulation loop, steps 1-7 for one year of a run: the year's figures and
\* the household state after it.
YearOutcome(sc, run) ==
    LET code == run.strategy
        st == run.state
        y == run.year
        age == AgeInYear(sc.age, y)
        cpp == BenefitAt(sc.cpp_at_65, CppStart(code, sc), age)
        oas == BenefitAt(sc.oas_at_65, OasStart(code, sc), age)
        interest == (st.loan * Param(sc, "loan_interest_rate_pct", 5)) \div 100
        minimum == MinWithdrawal(age, st.rrif)
        requested ==
            RequestedWithdrawal(sc, code, st, y, age, cpp + oas, interest)
        withdrawal == ClampWithdrawal(requested, minimum, st.rrif)
        spMin == IF sc.spouse # {}
                 THEN MinWithdrawal(AgeInYear(ValueOf(sc.spouse).age, y),
                                    st.spouse_rrif)
                 ELSE 0
        spWithdrawal ==
            ClampWithdrawal(SpouseRequest(sc, code, cpp + oas), spMin,
                            st.spouse_rrif)
        taxable == cpp + oas + withdrawal
        clawback == Clawback(100 * oas, ClawbackThreshold, taxable) \div 100
        tax == BaseTax(taxable - interest) + BaseTax(spWithdrawal) + clawback
        cash == taxable + spWithdrawal - tax - interest
        pct == ReturnPct(sc, st.rng)
        after == [rrif |-> Grow(st.rrif - withdrawal, pct),
                  tfsa |-> Grow(st.tfsa, pct),
                  loan |-> st.loan,
                  spouse_rrif |-> Grow(st.spouse_rrif - spWithdrawal, pct),
                  rng |-> IF sc.stddev_return_pct = 0 THEN st.rng
                          ELSE RngNext(st.rng),
                  cum_clawback |-> st.cum_clawback + clawback,
                  cum_tax |-> st.cum_tax + tax]
    IN [step |-> [year |-> y, age |-> age, rrif_open |-> st.rrif,
                  minimum |-> minimum, requested |-> requested,
                  rrif_withdrawal |-> withdrawal,
                  rrif_left |-> st.rrif - withdrawal],
        result |-> [year |-> y, age |-> age, cpp |-> cpp, oas |-> oas,
                    rrif_open |-> st.rrif,
                    rrif_withdrawal |-> withdrawal,
                    spouse_withdrawal |-> spWithdrawal,
                    taxable_income |-> taxable, tax_payable |-> tax,
                    clawback |-> clawback, after_tax_cash |-> cash,
                    shortfall |-> Max(0, sc.desired_spending - cash),
                    return_pct |-> pct,
                    rrif_end |-> after.rrif, tfsa_end |-> after.tfsa,
                    loan_end |-> after.loan,
                    spouse_rrif_end |-> after.spouse_rrif],
        state |-> after]

NegativeBalance(st) ==
    st.rrif < 0 \/ st.tfsa < 0 \/ st.loan < 0 \/ st.spouse_rrif < 0

NewRun(code, id) ==
    [request_id |-> id, strategy |-> code, status |-> "created", year |-> 0,
     state |-> {}, step |-> {}, results |-> <<>>, error |-> ""]

\* Two requests for the same scenario and seed, one strategy run each.
EngineInit ==
    /\ scenario \in {{sc} : sc \in ScenarioInputs}
    /\ seed \in EngineSeeds
    /\ \E c1 \in AllCodes : \E c2 \in {c1, "MIN"} :
           runs = <<NewRun(c1, 1), NewRun(c2, 2)>>

\* The run is validated and its HouseholdState created; a strategy that
\* lacks a required parameter is rejected here, before year 0.
StartRun(i) ==
    /\ i \in 1..Len(runs)
    /\ runs[i].status = "created"
    /\ LET sc == ValueOf(scenario)
           run == runs[i]
       IN runs' = [runs EXCEPT ![i] =
              IF MissingParams(run.strategy, sc) # {}
              THEN [run EXCEPT !.status = "rejected",
                               !.error = "MissingStrategyParameter"]
              ELSE [run EXCEPT !.status = "running",
                               !.state = {InitialState(sc, run)}]]
    /\ UNCHANGED <<scenario, seed, wizardVars, pageVars, cb, sideVars>>

\* A worker that reads the household of the first run that has one: one
\* household shared by the runs of a request.
HouseholdShared(i) ==
    IF runs[1].state # {} THEN ValueOf(runs[1].state)
    ELSE ValueOf(runs[i].state)

\* The HouseholdState a run's yearly step reads: the run's own.
HouseholdOf(i) == ValueOf(runs[i].state)

\* One year of the simulation loop.
SimulateYear(i) ==
    /\ i \in 1..Len(runs)
    /\ runs[i].status = "running"
    /\ LET sc == ValueOf(scenario)
           run == runs[i]
           out == YearOutcome(sc, [run EXCEPT !.state = HouseholdOf(i)])
       IN runs' = [runs EXCEPT ![i] =
              IF NegativeBalance(out.state)
              THEN [run EXCEPT !.status = "defect", !.step = {out.step},
                               !.error = "NegativeBalance"]
              ELSE [run EXCEPT
                      !.status = IF run.year + 1 >= sc.life_expectancy_years
                                    \/ Exhausted(out.state)
                                 THEN "terminal" ELSE "running",
                      !.year = run.year + 1,
                      !.state = {out.state},
                      !.step = {out.step},
                      !.results = AppendResult(run.results, out.result)]]
    /\ UNCHANGED <<scenario, seed, wizardVars, pageVars, cb, sideVars>>

InitEngine == WizardInit /\ PageIdle /\ EngineInit /\ cb = {} /\ SideIdle

NextEngine == \E i \in 1..2 : StartRun(i) \/ SimulateYear(i)

SpecEngine == InitEngine /\ [][NextEngine]_vars

\* The claw-back calculation applied to a benefit, a threshold and an income.
ClawbackBenefits == {0, 10, 15, 500000, 861800}
ClawbackThresholds == {0, 90997, 93454}
ClawbackExcesses == {-90997, -1, 0, 1, 2, 33333, 57454, 57455}

ClawbackInit ==
    \E b \in ClawbackBenefits, t \in ClawbackThresholds,
       x \in ClawbackExcesses :
        /\ t + x >= 0
        /\ cb = {[benefit |-> b, threshold |-> t, income |-> t + x,
                  clawback |-> {}]}

ApplyClawback ==
    /\ cb # {}
    /\ ValueOf(cb).clawback = {}
    /\ LET c == ValueOf(cb)
       IN cb' = {[c EXCEPT !.clawback =
                     {Clawback(c.benefit, c.threshold, c.income)}]}
    /\ UNCHANGED <<wizardVars, pageVars, engineVars, sideVars>>

EngineIdle0 ==
    /\ scenario = {}
    /\ seed = 0
    /\ runs = <<>>

InitClawback == WizardInit /\ PageIdle /\ EngineIdle0 /\ ClawbackInit /\ SideIdle

NextClawback == ApplyClawback

SpecClawback == InitClawback /\ [][NextClawback]_vars

EngineIdle ==
    /\ EngineIdle0
    /\ cb = {}

Init == WizardInit /\ PageIdle /\ EngineIdle /\ SideIdle

Next == WizardNext /\ UNCHANGED <<pageVars, engineVars, cb, sideVars>>

Spec == Init /\ [][Next]_vars

InitResults == WizardInit /\ PageInit /\ EngineIdle /\ SideIdle

NextResults == Render /\ UNCHANGED <<wizardVars, engineVars, cb, sideVars>>

SpecResults == InitResults /\ [][NextResults]_vars

(***************************************************************************)
(* ReportPage.tsx: the explanation section.  An HTML string is a sequence  *)
(* of tokens; DOMPurify.sanitize drops script elements and event-handler   *)
(* attributes and keeps the rest.                                          *)
(***************************************************************************)
MaxHtmlLen == 2    \* tokens in an explanation string

HtmlTokens == {"text", "<b>", "<script>", "<img onerror>"}
UnsafeTokens == {"<script>", "<img onerror>"}
HtmlStrings == UNION {[1..n -> HtmlTokens] : n \in 0..MaxHtmlLen}
OutcomeLists == {<<>>} \cup {<<t>> : t \in {<<"text">>, <<"<script>">>}}

SanitizeToken(t) ==
    CASE t = "<script>" -> <<>>
      [] t = "<img onerror>" -> <<"<img>">>
      [] OTHER -> <<t>>

RECURSIVE sanitize(_)
sanitize(h) ==
    IF h = <<>> THEN <<>> ELSE SanitizeToken(Head(h)) \o sanitize(Tail(h))

SummaryHtmlRaw(e) == e.summary

\* dangerouslySetInnerHTML of the summary paragraph
SummaryHtml(e) == sanitize(e.summary)

\* dangerouslySetInnerHTML of the "Key Recommendations" paragraph
RecommendationsHtml(e) == sanitize(e.recommendations)

\* The <li> children of "Key Outcomes": React text nodes, never markup.
OutcomeTexts(e) ==
    {[slot |-> "key_outcomes", index |-> i, content |-> e.key_outcomes[i]] :
        i \in 1..Len(e.key_outcomes)}

ReportInit ==
    \/ report = {[explanation |-> {}, phase |-> "props",
                  html |-> {}, text |-> {}]}
    \/ \E su \in HtmlStrings, re \in HtmlStrings, ko \in OutcomeLists :
        report = {[explanation |-> {[summary |-> su, key_outcomes |-> ko,
                                      recommendations |-> re]},
                   phase |-> "props", html |-> {}, text |-> {}]}

RenderReport ==
    /\ report # {}
    /\ ValueOf(report).phase = "props"
    /\ LET r == ValueOf(report)
       IN IF r.explanation = {}
          THEN report' = {[r EXCEPT !.phase = "rendered"]}
          ELSE LET e == ValueOf(r.explanation)
               IN report' = {[r EXCEPT
                      !.phase = "rendered",
                      !.html = {[slot |-> "summary",
                                 content |-> SummaryHtml(e)],
                                [slot |-> "recommendations",
                                 content |-> RecommendationsHtml(e)]},
                      !.text = OutcomeTexts(e)]}
    /\ UNCHANGED <<wizardVars, pageVars, engineVars, cb, sform, oasModal, proxy>>

InitReport ==
    WizardInit /\ PageIdle /\ EngineIdle /\ ReportInit /\ FormIdle /\ OasIdle
    /\ ProxyIdle

NextReport == RenderReport

SpecReport == InitReport /\ [][NextReport]_vars

(***************************************************************************)
(* ScenarioForm.tsx.  The text of a number input is a sequence of digits.  *)
(***************************************************************************)
MaxDigits == 2     \* characters typed into one number input

TypedDigits == {3, 6}

\* Number(text): the empty string converts to 0.
RECURSIVE Number(_)
Number(text) ==
    IF text = <<>> THEN 0
    ELSE 10 * Number(SubSeq(text, 1, Len(text) - 1)) + text[Len(text)]

\* The inputs the form renders besides the two checkboxes.
RenderedInputs(f) ==
    (IF f.includeSpouse THEN {"spouse-age"} ELSE {}) \cup
    (IF f.overrideParams THEN {"ceiling"} ELSE {})

DataKeysUnconditional(f) ==
    {"includeSpouse", "overrideParams", "spouseAge", "bracketFillCeiling"}

\* The keys of the object handleSubmit builds with its conditional spreads.
DataKeys(f) ==
    {"includeSpouse", "overrideParams"} \cup
    (IF f.includeSpouse THEN {"spouseAge"} ELSE {}) \cup
    (IF f.overrideParams THEN {"bracketFillCeiling"} ELSE {})

ScenarioFormData(f) ==
    [k \in DataKeys(f) |->
        CASE k = "includeSpouse" -> f.includeSpouse
          [] k = "overrideParams" -> f.overrideParams
          [] k = "spouseAge" -> Number(f.spouseAge)
          [] k = "bracketFillCeiling" -> Number(f.ceiling)]

ScenarioFormInit ==
    sform = {[includeSpouse |-> FALSE, spouseAge |-> <<>>,
              overrideParams |-> FALSE, ceiling |-> <<>>,
              submitted |-> {}]}

setIncludeSpouse ==
    /\ sform # {}
    /\ LET f == ValueOf(sform)
       IN sform' = {[f EXCEPT !.includeSpouse = ~f.includeSpouse]}

setSpouseAge ==
    /\ sform # {}
    /\ LET f == ValueOf(sform)
       IN /\ "spouse-age" \in RenderedInputs(f)
          /\ Len(f.spouseAge) < MaxDigits
          /\ \E d \in TypedDigits :
                sform' = {[f EXCEPT !.spouseAge = Append(f.spouseAge, d)]}

setOverrideParams ==
    /\ sform # {}
    /\ LET f == ValueOf(sform)
       IN sform' = {[f EXCEPT !.overrideParams = ~f.overrideParams]}

setCeiling ==
    /\ sform # {}
    /\ LET f == ValueOf(sform)
       IN /\ "ceiling" \in RenderedInputs(f)
          /\ Len(f.ceiling) < MaxDigits
          /\ \E d \in TypedDigits :
                sform' = {[f EXCEPT !.ceiling = Append(f.ceiling, d)]}

\* handleSubmit: onSubmit receives the data object.
formSubmit ==
    /\ sform # {}
    /\ LET f == ValueOf(sform)
       IN sform' = {[f EXCEPT !.submitted = {ScenarioFormData(f)}]}

InitForm ==
    WizardInit /\ PageIdle /\ EngineIdle /\ ReportIdle /\ ScenarioFormInit
    /\ OasIdle /\ ProxyIdle

NextForm ==
    /\ \/ setIncludeSpouse
       \/ setSpouseAge
       \/ setOverrideParams
       \/ setCeiling
       \/ formSubmit
    /\ UNCHANGED <<wizardVars, pageVars, engineVars, cb, report, oasModal, proxy>>

SpecForm == InitForm /\ [][NextForm]_vars

(***************************************************************************)
(* OASCalculatorModal.tsx, mounted by pages/Calculator.tsx while           *)
(* isOASModalOpen.  A string state hook that may be null holds "" for      *)
(* null.  The calculation itself is done by /oas-calculator/calculate; its *)
(* result is represented by the payload it was computed from.              *)
(***************************************************************************)
OasFields == {"rrif_withdrawals", "cpp_pension", "work_pension",
              "other_income", "email_address", "recipient_name"}
OasRequiredFields == {"rrif_withdrawals", "cpp_pension", "work_pension",
                      "other_income", "email_address"}
OasNumericFields == {"rrif_withdrawals", "cpp_pension", "work_pension",
                     "other_income"}

\* The texts typed into each field in this model.
OasFieldValues(f) ==
    CASE f = "rrif_withdrawals" -> {"", "100", "200", "x"}
      [] f = "email_address" -> {"", "nobody", "a@b.ca"}
      [] f = "recipient_name" -> {"", "Pat"}
      [] OTHER -> {"", "0"}

\* parseFloat of a typed text; {} is NaN.
ParseFloat(text) ==
    CASE text = "0" -> {0}
      [] text = "100" -> {100}
      [] text = "200" -> {200}
      [] OTHER -> {}

\* /^[^\s@]+@[^\s@]+\.[^\s@]+$/ on the e-mail texts of the model
EmailRegexTest(text) == text = "a@b.ca"

OasInitialFormData == [f \in OasFields |-> ""]

\* validateForm: "" when the form is valid, else the error it sets.
OasValidationError(fd) ==
    IF \E f \in OasRequiredFields : fd[f] = ""
    THEN "Please fill in all required fields"
    ELSE IF ~EmailRegexTest(fd.email_address)
    THEN "Please enter a valid email address"
    ELSE IF \E f \in OasNumericFields :
                ParseFloat(fd[f]) = {} \/ ValueOf(ParseFloat(fd[f])) < 0
    THEN "Please enter valid amounts"
    ELSE ""

OasPayload(fd) ==
    [rrif_withdrawals |-> ParseFloat(fd.rrif_withdrawals),
     cpp_pension |-> ParseFloat(fd.cpp_pension),
     work_pension |-> ParseFloat(fd.work_pension),
     other_income |-> ParseFloat(fd.other_income),
     email_address |-> fd.email_address,
     recipient_name |-> fd.recipient_name]

CalculationResult(payload) == [computed_from |-> payload]

OasMounted ==
    [open |-> TRUE, formData |-> OasInitialFormData, loading |-> FALSE,
     result |-> {}, error |-> "", success |-> "", pending |-> {}]

OasModalInit == oasModal = {[OasMounted EXCEPT !.open = FALSE]}

openOASModal ==
    /\ oasModal # {}
    /\ ~ValueOf(oasModal).open
    /\ oasModal' = {OasMounted}

\* The result is cleared only when the render that handles the event has one.
ClearedOnChange(m) == IF m.result # {} THEN {} ELSE m.result

oasInputChange ==
    /\ oasModal # {}
    /\ LET m == ValueOf(oasModal)
       IN /\ m.open
          /\ \E f \in OasFields : \E v \in OasFieldValues(f) :
                /\ v # m.formData[f]
                /\ oasModal' =
                     {[m EXCEPT !.formData = [m.formData EXCEPT ![f] = v],
                                !.result = ClearedOnChange(m),
                                !.success = IF m.result # {} THEN ""
                                            ELSE m.success]}

\* handleSubmit up to the fetch; the button is disabled while loading.
oasSubmit ==
    /\ oasModal # {}
    /\ LET m == ValueOf(oasModal)
       IN /\ m.open
          /\ ~m.loading
          /\ IF OasValidationError(m.formData) # ""
             THEN oasModal' =
                    {[m EXCEPT !.error = OasValidationError(m.formData),
                               !.success = ""]}
             ELSE oasModal' =
                    {[m EXCEPT !.error = "", !.success = "",
                               !.loading = TRUE,
                               !.pending = {OasPayload(m.formData)}]}

\* handleSubmit after the fetch: data.success
oasResponseOk ==
    /\ oasModal # {}
    /\ LET m == ValueOf(oasModal)
       IN /\ m.pending # {}
          /\ oasModal' =
               {[m EXCEPT !.result = {CalculationResult(ValueOf(m.pending))},
                          !.success = "message",
                          !.loading = FALSE,
                          !.pending = {}]}

\* handleSubmit after the fetch: data.success false, a status that is not
\* ok, or a failed fetch.
oasResponseError ==
    /\ oasModal # {}
    /\ LET m == ValueOf(oasModal)
       IN /\ m.pending # {}
          /\ \E e \in {"Calculation failed", "Failed to calculate OAS clawback"} :
                oasModal' = {[m EXCEPT !.error = e, !.loading = FALSE,
                                       !.pending = {}]}

\* handleClose resets the hooks and Calculator unmounts the modal; the
\* answer to a request of an unmounted modal changes nothing.
oasHandleClose ==
    /\ oasModal # {}
    /\ ValueOf(oasModal).open
    /\ oasModal' = {[OasMounted EXCEPT !.open = FALSE]}

InitOas ==
    WizardInit /\ PageIdle /\ EngineIdle /\ ReportIdle /\ FormIdle
    /\ OasModalInit /\ ProxyIdle

NextOas ==
    /\ \/ openOASModal
       \/ oasInputChange
       \/ oasSubmit
       \/ oasResponseOk
       \/ oasResponseError
       \/ oasHandleClose
    /\ UNCHANGED <<wizardVars, pageVars, engineVars, cb, report, sform, proxy>>

SpecOas == InitOas /\ [][NextOas]_vars

(***************************************************************************)
(* server/index.js: the Express proxy in front of the Python backend.      *)
(* proxy holds one record per /api request received: the position of its  *)
(* handler (awaiting fetch, awaiting response.text(), finished in the try  *)
(* block, finished in the catch block), the backend response once fetch    *)
(* has resolved, and the responses written to the client.                  *)
(***************************************************************************)
MaxRequests == 2   \* /api requests received in one behaviour

ProxyMethods == {"GET", "POST", "HEAD"}
BackendStatuses == {200, 500}
BackendContentTypes == {{}, {"application/json"}}

\* fetch rejects a GET or HEAD request that has a body; the handler gives a
\* body to every method but GET.
FetchAcceptsRequest(method) == method \in {"GET", "POST"}

\* res.status(500).json({ error: "Backend service unavailable" })
ProxyErrorResponse ==
    [status |-> 500, contentType |-> "application/json",
     body |-> "{\"error\":\"Backend service unavailable\"}"]

\* res.status(response.status); res.set("Content-Type", ...); res.send(data)
ForwardedResponse(response) ==
    [status |-> response.status,
     contentType |-> IF response.contentType # {}
                     THEN ValueOf(response.contentType) ELSE "text/html",
     body |-> response.body]

CatchSendsNothing(sent) == sent

\* The catch block, applied to the responses written so far.
CatchSends(sent) == Append(sent, ProxyErrorResponse)

proxyReceive ==
    /\ Len(proxy) < MaxRequests
    /\ \E m \in ProxyMethods :
          proxy' = Append(proxy, [method |-> m, pos |-> "fetch",
                                  response |-> {}, sent |-> <<>>])

fetchResolved(i) ==
    /\ proxy[i].pos = "fetch"
    /\ FetchAcceptsRequest(proxy[i].method)
    /\ \E st \in BackendStatuses, ct \in BackendContentTypes :
          proxy' = [proxy EXCEPT
                      ![i].pos = "text",
                      ![i].response = {[status |-> st, contentType |-> ct,
                                        body |-> "backend body"]}]

fetchRejected(i) ==
    /\ proxy[i].pos = "fetch"
    /\ proxy' = [proxy EXCEPT ![i].pos = "caught",
                              ![i].sent = CatchSends(proxy[i].sent)]

textResolved(i) ==
    /\ proxy[i].pos = "text"
    /\ proxy' = [proxy EXCEPT
                   ![i].pos = "sent",
                   ![i].sent = Append(proxy[i].sent,
                                  ForwardedResponse(ValueOf(proxy[i].response)))]

textRejected(i) ==
    /\ proxy[i].pos = "text"
    /\ proxy' = [proxy EXCEPT ![i].pos = "caught",
                              ![i].sent = CatchSends(proxy[i].sent)]

InitProxy ==
    WizardInit /\ PageIdle /\ EngineIdle /\ ReportIdle /\ FormIdle /\ OasIdle
    /\ proxy = <<>>

NextProxy ==
    /\ \/ proxyReceive
       \/ \E i \in 1..Len(proxy) : fetchResolved(i)
       \/ \E i \in 1..Len(proxy) : fetchRejected(i)
       \/ \E i \in 1..Len(proxy) : textResolved(i)
       \/ \E i \in 1..Len(proxy) : textRejected(i)
    /\ UNCHANGED <<wizardVars, pageVars, engineVars, cb, report, sform,
                   oasModal>>

SpecProxy == InitProxy /\ [][NextProxy]_vars

(***************************************************************************)
(* Claims                                                                  *)
(***************************************************************************)
\* The goal metric of a processed result; {} when it is unavailable.
GoalMetric(goal, p) ==
    CASE goal = "Minimize Tax" -> p.totalTaxes
      [] goal = "Maximize Spending" -> p.totalSpending
      [] goal = "Preserve Estate" -> p.finalEstate

\* a is strictly better than b for the goal.
StrictlyBetter(goal, a, b) ==
    IF goal = "Minimize Tax" THEN ValueOf(a) < ValueOf(b)
    ELSE ValueOf(a) > ValueOf(b)

\* C4: for the goals Minimize Tax, Maximize Spending and Preserve Estate the
\* page recommends a result of the list; when some result's goal metric is
\* available the recommended one has its metric available, no available
\* metric is strictly better, and every earlier available metric is strictly
\* worse (ties go to the earliest); so a result with an unavailable metric is
\* recommended only when every metric is unavailable.
C4_RecommendedIsOptimal ==
    (rpPhase = "rendered"
     /\ rpGoal \in {"Minimize Tax", "Maximize Spending", "Preserve Estate"})
    => LET m == [i \in 1..Len(processed) |-> GoalMetric(rpGoal, processed[i])]
           avail == {i \in 1..Len(processed) : m[i] # {}}
       IN /\ recommended \in 1..Len(processed)
          /\ avail # {} =>
                /\ recommended \in avail
                /\ \A j \in avail : ~StrictlyBetter(rpGoal, m[j], m[recommended])
                /\ \A j \in avail :
                      j < recommended
                      => StrictlyBetter(rpGoal, m[recommended], m[j])

\* C4 witness: the first result has no tax metric, the second and third tie
\* on the lowest lifetime tax, and the second is recommended.
C4_Witness ==
    /\ rpPhase = "rendered"
    /\ rpGoal = "Minimize Tax"
    /\ Len(processed) = 3
    /\ processed[1].totalTaxes = {}
    /\ processed[2].totalTaxes = {1}
    /\ processed[3].totalTaxes = {1}
    /\ recommended = 2

\* The position of code c in the list codes (0 if absent).
IndexOf(codes, c) ==
    IF c \in SeqRange(codes)
    THEN CHOOSE i \in 1..Len(codes) : codes[i] = c
    ELSE 0

\* The exchange whose results are on screen, and the codes of the rows shown.
ShownExchange == ValueOf(shown)
ShownRows == TableRows(ValueOf(resultsData))
FailedCodes == {f.strategy_code : f \in ShownExchange.failures}

C5_PartialResultsAnnotated ==
    (shown # {} /\ ShownExchange.failures # {})
    => /\ resultsData = {ShownExchange.comparisons}
       /\ error # ""

\* C6: no compare request is started for a scenario one of whose fields
\* the input form flags as outside its limits.
C6_NoRequestForInvalidScenario ==
    \A req \in inflight : FormErrors(req.form) = {}


(***************************************************************************)
(* Claims about the projection engine                                      *)
(***************************************************************************)
RunIds == 1..Len(runs)
Stepped(i) == runs[i].step # {}
LastStep(i) == ValueOf(runs[i].step)

C2_BalancesNonNegative ==
    \A i \in RunIds :
        /\ runs[i].status # "defect"
        /\ \A k \in 1..Len(runs[i].results) :
              LET r == runs[i].results[k]
              IN /\ r.rrif_end >= 0 /\ r.tfsa_end >= 0 /\ r.loan_end >= 0
                 /\ r.spouse_rrif_end >= 0
        /\ (runs[i].status \in {"running", "terminal"} /\ Stepped(i)) =>
              LET r == runs[i].results[Len(runs[i].results)]
              IN r.rrif_end * 100 <= LastStep(i).rrif_left * (100 + r.return_pct)
                 /\ LastStep(i).rrif_left * (100 + r.return_pct)
                        < (r.rrif_end + 1) * 100

\* A year of a run with a loan outstanding that drew the worst return,
\* which wiped out what the withdrawal had left in the account.
C2_Witness ==
    \E i \in RunIds :
          /\ runs[i].status = "terminal"
          /\ Len(runs[i].results) >= 1
          /\ runs[i].results[Len(runs[i].results)].return_pct = -100
          /\ LastStep(i).rrif_left > 0
          /\ runs[i].results[Len(runs[i].results)].rrif_end = 0
          /\ runs[i].results[Len(runs[i].results)].loan_end > 0

\* The requests in which a strategy lacks a parameter it requires and that
\* has no default.
C7_LacksRequiredParam(code) ==
    LET given == DOMAIN ValueOf(scenario).params
    IN \/ code = "LS" /\ ~({"lump_sum_amount", "lump_sum_year_offset"}
                             \subseteq given)
       \/ code = "EBX" /\ "target_depletion_age" \notin given

\* C7: a run whose strategy lacks a required parameter without default never
\* enters year 0: it produces no YearlyResult and no household state, and
\* once handled it is rejected with MissingStrategyParameter.
C7_MissingParamReportedBeforeYear0 ==
    \A i \in RunIds :
        C7_LacksRequiredParam(runs[i].strategy) =>
            /\ runs[i].status \in {"created", "rejected"}
            /\ runs[i].results = <<>>
            /\ runs[i].state = {}
            /\ runs[i].year = 0
            /\ runs[i].status = "rejected" =>
                   runs[i].error = "MissingStrategyParameter"

\* LS asked for with an amount but no year offset, rejected, while the other
\* run of the comparison went on.
C7_Witness ==
    \E i, j \in RunIds :
        /\ runs[i].strategy = "LS"
        /\ "lump_sum_amount" \in DOMAIN ValueOf(scenario).params
        /\ "lump_sum_year_offset" \notin DOMAIN ValueOf(scenario).params
        /\ runs[i].status = "rejected"
        /\ runs[j].status = "terminal"

C8_WellFormed(run) ==
    /\ \A k \in 1..Len(run.results) : run.results[k].year = k - 1
    /\ Len(run.results) <= ValueOf(scenario).life_expectancy_years
    /\ run.status = "terminal" =>
          \/ Len(run.results) = ValueOf(scenario).life_expectancy_years
          \/ /\ Len(run.results) >= 1
             /\ Exhausted(ValueOf(run.state))
             /\ run.error = ""

\* C8: the YearlyResult sequence of a run only grows by appending one result
\* at a time, holds the years 0, 1, 2, ... in order, and at Terminal has
\* exactly H entries, or fewer when every balance was exhausted, in which
\* case the run ended without error.
C8_ResultsAppendOnlyOrdered ==
    [][\A i \in RunIds :
          /\ C8_WellFormed(runs[i])
          /\ C8_WellFormed(runs[i])'
          /\ \/ runs[i].results' = runs[i].results
             \/ /\ Len(runs[i].results') = Len(runs[i].results) + 1
                /\ SubSeq(runs[i].results', 1, Len(runs[i].results))
                     = runs[i].results]_vars

\* A run ended by exhaustion before its horizon, and a run that reached it.
C8_Witness ==
    \E i, j \in RunIds :
        /\ runs[i].status = "terminal"
        /\ Len(runs[i].results) >= 1
        /\ Len(runs[i].results) < ValueOf(scenario).life_expectancy_years
        /\ runs[j].status = "terminal"
        /\ Len(runs[j].results) = ValueOf(scenario).life_expectancy_years
        /\ Len(runs[j].results) >= 2

ClawbackDone == cb # {} /\ ValueOf(cb).clawback # {}
ClawbackResult == ValueOf(ValueOf(cb).clawback)

\* C10 as stated: zero at or below the threshold, positive and at most 15%
\* of the excess one dollar above it, never above the benefit.
C10_Original_ClawbackBoundary ==
    ClawbackDone =>
        LET c == ValueOf(cb)
        IN /\ c.income <= c.threshold => ClawbackResult = 0
           /\ c.income = c.threshold + 1 =>
                  ClawbackResult > 0 /\ ClawbackResult <= 15
           /\ ClawbackResult <= c.benefit

\* C10: the claw-back (in cents) is 0 when I <= T; at I = T + 1 dollar it is
\* at most 15% of the excess, and positive when the benefit is; it never
\* exceeds the benefit B.
C10_ClawbackBoundary ==
    ClawbackDone =>
        LET c == ValueOf(cb)
        IN /\ c.income <= c.threshold => ClawbackResult = 0
           /\ c.income = c.threshold + 1 =>
                  /\ ClawbackResult <= 15
                  /\ c.benefit > 0 => ClawbackResult > 0
           /\ ClawbackResult <= c.benefit
           /\ ClawbackResult >= 0

\* One dollar above the threshold with a benefit to recover from.
C10_Witness ==
    /\ ClawbackDone
    /\ ValueOf(cb).income = ValueOf(cb).threshold + 1
    /\ ValueOf(cb).benefit > 15
    /\ ClawbackResult = 15


\* The YearlyResult sequence a run of n years produces when it is the only
\* run there is: the yearly step applied n times to the run's own state.
RECURSIVE SoloResults(_, _, _)
SoloResults(sc, run, n) ==
    IF n = 0 THEN <<>>
    ELSE LET out == YearOutcome(sc, run)
         IN <<out.result>>
            \o SoloResults(sc, [run EXCEPT !.year = run.year + 1,
                                           !.state = out.state], n - 1)

SoloRun(i) ==
    LET fresh == NewRun(runs[i].strategy, runs[i].request_id)
    IN SoloResults(ValueOf(scenario),
                   [fresh EXCEPT !.state = InitialState(ValueOf(scenario), fresh)],
                   Len(runs[i].results))

GMWithdrawal(r) ==
    ClampWithdrawal(GMRequest(ValueOf(scenario), r.cpp + r.oas),
                    MinWithdrawal(r.age, r.rrif_open), r.rrif_open)

\* C12: a finished LS run with lump amount A and a year offset k the input
\* form accepts for the horizon (1 <= k <= H) has exactly one YearlyResult
\* whose RRIF withdrawal is the GM withdrawal plus A, the one of year index
\* k, and the GM withdrawal in every other year.
C12_LumpSumInExactlyYearK ==
    \A i \in RunIds :
        LET sc == ValueOf(scenario)
            rs == runs[i].results
        IN (/\ runs[i].strategy = "LS"
            /\ runs[i].status = "terminal"
            /\ {"lump_sum_amount", "lump_sum_year_offset"} \subseteq DOMAIN sc.params
            /\ ~LumpSumYearError(sc.params["lump_sum_year_offset"],
                                 sc.life_expectancy_years))
           => LET A == sc.params["lump_sum_amount"]
                  k == sc.params["lump_sum_year_offset"]
              IN /\ \E y \in 1..Len(rs) : rs[y].year = k
                 /\ \A y \in 1..Len(rs) :
                       rs[y].rrif_withdrawal =
                           GMWithdrawal(rs[y]) + (IF rs[y].year = k THEN A ELSE 0)


CeilingUsed(req) ==
    IF req.scenario.params # {}
       /\ "bracket_fill_ceiling" \in DOMAIN ValueOf(req.scenario.params)
    THEN ValueOf(req.scenario.params)["bracket_fill_ceiling"]
    ELSE ClawbackThreshold

\* C13: a request that runs BF and whose ceiling the user has not entered
\* has its BF run work with the OAS claw-back threshold as ceiling.
C13_DefaultCeilingIsThreshold ==
    \A req \in inflight :
        (Includes(req.strategies, "BF")
         /\ "bracketFillCeiling" \notin req.entered)
        => CeilingUsed(req) = ClawbackThreshold


\* The values typed by the user that a compare request carries.
PersonalFields ==
    {"age", "rrsp_balance", "tfsa_balance", "cpp_at_65", "oas_at_65",
     "desired_spending"}
PersonalDataSent(req) ==
    {k \in PersonalFields \cap DOMAIN req.scenario :
        req.scenario[k] = req.form[CASE k = "age" -> "age"
                                     [] k = "rrsp_balance" -> "rrspBalance"
                                     [] k = "tfsa_balance" -> "tfsaBalance"
                                     [] k = "cpp_at_65" -> "cppAmount"
                                     [] k = "oas_at_65" -> "oasAmount"
                                     [] k = "desired_spending" -> "desiredSpending"]}

\* C15: no request sent by the application carries a value of the form
\* (age, balances, incomes, spending).
C15_NoPersonalDataLeavesDevice ==
    \A req \in inflight : PersonalDataSent(req) = {}


(***************************************************************************)
(* Claims about the explanation section of ReportPage                      *)
(***************************************************************************)
ReportRendered == report # {} /\ ValueOf(report).phase = "rendered"
HasUnsafe(h) == \E i \in 1..Len(h) : h[i] \in UnsafeTokens

InputsFollowCheckboxes(f) ==
    /\ "spouse-age" \in RenderedInputs(f) <=> f.includeSpouse
    /\ "ceiling" \in RenderedInputs(f) <=> f.overrideParams

\* C17: whatever toggles and typing came before, a payload handed to
\* onSubmit holds spouseAge, the number typed, exactly when "include spouse"
\* is checked at that moment, and bracketFillCeiling, the number typed,
\* exactly when "override params" is checked; before and after every step
\* each of the two inputs is rendered exactly when its checkbox is checked.
C17_PayloadFollowsCheckboxes ==
    [][/\ sform # {} /\ sform' # {}
       /\ InputsFollowCheckboxes(ValueOf(sform))
       /\ InputsFollowCheckboxes(ValueOf(sform'))
       /\ ValueOf(sform').submitted # ValueOf(sform).submitted =>
            LET f == ValueOf(sform)
                d == ValueOf(ValueOf(sform').submitted)
            IN /\ "spouseAge" \in DOMAIN d <=> f.includeSpouse
               /\ "bracketFillCeiling" \in DOMAIN d <=> f.overrideParams
               /\ f.includeSpouse =>
                    d.spouseAge \in Nat /\ d.spouseAge = Number(f.spouseAge)
               /\ f.overrideParams =>
                    /\ d.bracketFillCeiling \in Nat
                    /\ d.bracketFillCeiling = Number(f.ceiling)]_vars

\* A ceiling was typed and its checkbox cleared again, the spouse age 63 was
\* typed, and the payload submitted holds the age and no ceiling.
C17_Witness ==
    /\ sform # {}
    /\ LET f == ValueOf(sform)
       IN /\ f.ceiling # <<>>
          /\ ~f.overrideParams
          /\ f.submitted # {}
          /\ DOMAIN ValueOf(f.submitted) =
                {"includeSpouse", "overrideParams", "spouseAge"}
          /\ ValueOf(f.submitted).spouseAge = 63


(***************************************************************************)
(* Claims about the "Simplify" recommendation                              *)
(***************************************************************************)
MinIndexes == {i \in 1..Len(processed) : processed[i].strategy_code = "MIN"}

\* C18: for goal "Simplify", when the results include the minimum-only
\* baseline (code MIN, carrying the label of the strategy registry) that
\* result is the recommended one; otherwise the first result is recommended.
C18_SimplifyRecommendsMinimumOnly ==
    (rpPhase = "rendered" /\ rpGoal = "Simplify") =>
        IF MinIndexes # {}
        THEN recommended \in MinIndexes
        ELSE recommended = 1


(***************************************************************************)
(* Claims about the OAS calculator modal                                   *)
(***************************************************************************)
\* C19: a calculation result the modal displays was computed from the
\* values the form holds now, also when an input was changed while the
\* calculation was in flight.
C19_DisplayedResultIsCurrent ==
    (oasModal # {} /\ ValueOf(oasModal).open
        /\ ValueOf(oasModal).result # {}) =>
        LET m == ValueOf(oasModal)
        IN ValueOf(m.result).computed_from = OasPayload(m.formData)


(***************************************************************************)
(* Claims about the defaults of the strategy step                          *)
(***************************************************************************)
\* The default a toggle may write into a field, given the new selection.
ToggleDefault(codes, f) ==
    CASE f = "lumpSumAmount" /\ Includes(codes, "LS") -> {90000}
      [] f = "lumpSumYear" /\ Includes(codes, "LS") -> {20}
      [] f = "bracketFillCeiling" /\ Includes(codes, "BF") -> {90000}
      [] f = "cppStartAge" /\ Includes(codes, "CD") -> {70}
      [] f = "emptyByAge" /\ Includes(codes, "EBX") -> {90}
      [] OTHER -> {}

\* C20: a toggle in step 2 changes, besides the selection, only parameters
\* of strategies in the new selection that the user has not set (never
\* typed into, or left empty or 0), and sets them to their defaults; a value
\* the user entered is never overwritten and every other field is left
\* unchanged.
C20_ToggleKeepsEnteredValues ==
    [][(StepView = "StrategyStep" /\ currentStep' = currentStep
        /\ formData'.strategies # formData.strategies) =>
          \A f \in DOMAIN formData \ {"strategies"} :
              formData'[f] # formData[f] =>
                  /\ f \notin entered \/ ~Truthy(formData[f])
                  /\ ToggleDefault(formData'.strategies, f) # {}
                  /\ formData'[f] = ToggleDefault(formData'.strategies, f)]_vars


(***************************************************************************)
(* Claims about the Express proxy                                          *)
(***************************************************************************)
\* C21: every /api request the proxy handles receives exactly one response:
\* none while its handler is still waiting, then either the backend's status
\* and body (the backend answered) or HTTP 500 with the JSON error "Backend
\* service unavailable" (the call failed), never both; and whatever failed
\* before, the proxy accepts the next request.
C21_ExactlyOneResponse ==
    /\ \A i \in 1..Len(proxy) :
          LET r == proxy[i]
          IN /\ r.pos \in {"fetch", "text"} => r.sent = <<>>
             /\ r.pos = "sent" =>
                  /\ Len(r.sent) = 1
                  /\ r.response # {}
                  /\ r.sent[1].status = ValueOf(r.response).status
                  /\ r.sent[1].body = ValueOf(r.response).body
             /\ r.pos = "caught" => r.sent = <<ProxyErrorResponse>>
    /\ Len(proxy) < MaxRequests => ENABLED proxyReceive

\* A request whose backend call failed was answered with the proxy's 500,
\* and the request received after it was answered with the backend's 200.
C21_Witness ==
    /\ Len(proxy) >= 2
    /\ proxy[1].pos = "caught"
    /\ proxy[1].sent = <<ProxyErrorResponse>>
    /\ proxy[2].pos = "sent"
    /\ proxy[2].sent[1].status = 200
    /\ proxy[2].sent[1].body = "backend body"


(***************************************************************************)
(* Claims about the wizard's step views and its responses                  *)
(***************************************************************************)
\* C22: whenever currentStep is 4, resultsData is a non-empty list and the
\* results page is rendered; the wizard is never in a state in which no
\* step view is shown.
C22_SomeStepViewShown ==
    /\ currentStep = 4 =>
          resultsData # {} /\ Len(ValueOf(resultsData)) > 0
    /\ StepView # ""


\* C23: the results shown at step 4 are the response to the most recently
\* submitted compare request, and the goal, the horizon and the scenario
\* handed to the results page with them are those that request was built
\* from.
C23_ShownResultsAreLatest ==
    StepView = "ResultsPage" =>
        /\ shown # {}
        /\ resultsData = {ShownExchange.comparisons}
        /\ ShownExchange.request.request_id = submits
        /\ scenarioData = {ShownExchange.request.scenario}
        /\ formData.goal = ShownExchange.request.form.goal
        /\ formData.horizon = ShownExchange.request.form.horizon


\* C24: every compare request whose strategies list includes SEQ carries a
\* spouse sub-record: married was true when the request was built.
C24_SeqRequestCarriesSpouse ==
    \A req \in inflight :
        Includes(req.strategies, "SEQ") =>
            req.form.married /\ req.scenario.spouse # Undefined

\* The strategy an override parameter belongs to.
ParamOwner(k) ==
    CASE k = "bracket_fill_ceiling" -> "BF"
      [] k = "cpp_start_age" -> "CD"
      [] k = "lump_sum_amount" -> "LS"
      [] k = "lump_sum_year_offset" -> "LS"
      [] k = "target_depletion_age" -> "EBX"

\* C25: the parameter overrides of a compare request hold only parameters
\* of strategies in the strategies list of that request.
C25_OverridesOfSelectedStrategiesOnly ==
    \A req \in inflight :
        req.scenario.params # Undefined =>
            \A k \in DOMAIN ValueOf(req.scenario.params) :
                Includes(req.strategies, ParamOwner(k))

====
